---- MODULE Spec2Model ----
(***************************************************************************)
(* A model of src/src/spiralfun/spiralfun.py: a chain of circles, each     *)
(* rotated about the centre of its predecessor, and the loop that drives   *)
(* the animation.                                                          *)
(*                                                                         *)
(* Arithmetic.  The program computes with floats; the model computes with  *)
(* exact values, so every equality below is an equality of real numbers.   *)
(*   - A point is a pair of integers.                                      *)
(*   - A length is represented by its square (the lengths that occur are   *)
(*     square roots of naturals).                                          *)
(*   - An angle is a record [q, dir]: q quarter turns plus the angle of    *)
(*     the vector dir, which lies in the first quadrant (dir[1] > 0,       *)
(*     dir[2] >= 0), so q*90 <= angle < (q+1)*90 degrees.                  *)
(*   - In the chain model one rotation step (STEP_SIZE in the source, 0.05 *)
(*     degrees) is one quarter turn: the only step for which cos and sin   *)
(*     keep integer points on integer points.  Everything else in          *)
(*     Circle.rotate and calc_angle is computed as the source computes it. *)
(*   - The driving loop is modelled at the source's scale, with angles     *)
(*     counted in units of STEP_SIZE (see the second part of the module).  *)
(***************************************************************************)
EXTENDS Integers, Naturals, Sequences, FiniteSets, TLC

\* ------------------------------------------------------------------------
\* Bounds of the chain model
\* ------------------------------------------------------------------------
MaxCircles == 3
MaxRadius == 2
MaxSteps == 2

\* ------------------------------------------------------------------------
\* Exact arithmetic helpers
\* ------------------------------------------------------------------------
Abs(k) == IF k < 0 THEN -k ELSE k

\* math.sqrt on a perfect square
ISqrt(k) == CHOOSE s \in 0..k : s * s = k

Norm2(v) == v[1] * v[1] + v[2] * v[2]

\* a quarter turn counterclockwise of a vector
Quarter(v) == <<-v[2], v[1]>>

RECURSIVE Turn(_, _)
Turn(v, k) == IF k % 4 = 0 THEN v ELSE Turn(Quarter(v), (k % 4) - 1)

\* math.asin(dy / r), r given by its square r2: the angle in [-90, 90]
\* degrees whose sine is dy / r; its cosine is sqrt(r2 - dy^2) / r.
asin(dy, r2) ==
    LET c == ISqrt(r2 - dy * dy)
    IN  IF dy < 0 THEN [q |-> -1, dir |-> <<-dy, c>>]
        ELSE IF c = 0 THEN [q |-> 1, dir |-> <<dy, 0>>]
        ELSE [q |-> 0, dir |-> <<c, dy>>]

\* math.pi - angle
PiMinus(angle) ==
    IF angle.dir[2] = 0
    THEN [q |-> 2 - angle.q, dir |-> angle.dir]
    ELSE [q |-> 1 - angle.q, dir |-> <<angle.dir[2], angle.dir[1]>>]

\* math.pi + angle
PiPlus(angle) == [q |-> angle.q + 2, dir |-> angle.dir]

\* angle + k * STEP_SIZE, one step being a quarter turn
AddSteps(angle, k) == [q |-> angle.q + k, dir |-> angle.dir]

\* (math.cos(angle) * d, math.sin(angle) * d), d given by its square d2
Polar(angle, d2) ==
    LET w == Turn(angle.dir, angle.q)
    IN  IF Norm2(w) = d2 THEN w
        ELSE CHOOSE v \in (-d2..d2) \X (-d2..d2) :
                /\ Norm2(v) = d2
                /\ v[1] * w[2] = v[2] * w[1]
                /\ v[1] * w[1] + v[2] * w[2] > 0

\* 0 <= angle <= pi
InZeroPi(angle) == angle.q \in {0, 1} \/ (angle.q = 2 /\ angle.dir[2] = 0)

\* -pi/2 <= angle <= 3*pi/2
InFullRange(angle) == angle.q \in -1..2 \/ (angle.q = 3 /\ angle.dir[2] = 0)

\* ------------------------------------------------------------------------
\* Geometry utilities
\* ------------------------------------------------------------------------
\* the distance, represented by its square
calc_distance(point1, point2) ==
    LET dx == point2[1] - point1[1]
        dy == point2[2] - point1[2]
    IN  dx * dx + dy * dy

\* dy / r raises ZeroDivisionError when the two points coincide
ZeroDivision(origin, point) == calc_distance(origin, point) = 0

calc_angle_pi_plus(origin, point) ==
    LET dy == point[2] - origin[2]
        r == calc_distance(origin, point)
        angle == asin(dy, r)
    IN  IF point[1] > origin[1] THEN angle ELSE PiPlus(angle)

calc_angle_no_mirror(origin, point) ==
    asin(point[2] - origin[2], calc_distance(origin, point))

\* defined when the points differ.  The two clamps (dy > r, dy < -r) never
\* change dy in exact arithmetic: dy^2 <= r^2.
calc_angle(origin, point) ==
    LET dy0 == point[2] - origin[2]
        r == calc_distance(origin, point)
        dy1 == IF dy0 > 0 /\ dy0 * dy0 > r THEN ISqrt(r) ELSE dy0
        dy == IF dy1 < 0 /\ dy1 * dy1 > r THEN -ISqrt(r) ELSE dy1
        angle == asin(dy, r)
    IN  IF point[1] > origin[1] THEN angle ELSE PiMinus(angle)

\* ------------------------------------------------------------------------
\* Circle
\* ------------------------------------------------------------------------
rotate_same_way(center, rotation_center, clockwise) ==
    LET angle == AddSteps(calc_angle(rotation_center, center), -1)
        d == calc_distance(rotation_center, center)
        p == Polar(angle, d)
    IN  <<p[1] + rotation_center[1], p[2] + rotation_center[2]>>

rotate_about_origin(center, rotation_center, clockwise) ==
    LET angle == AddSteps(calc_angle(rotation_center, center),
                          IF clockwise THEN -1 ELSE 1)
        d == calc_distance(rotation_center, center)
    IN  Polar(angle, d)

\* Circle.rotate: the new centre (moveto stores it)
rotate(center, rotation_center, clockwise) ==
    LET angle == AddSteps(calc_angle(rotation_center, center),
                          IF clockwise THEN -1 ELSE 1)
        d == calc_distance(rotation_center, center)
        p == Polar(angle, d)
    IN  <<p[1] + rotation_center[1], p[2] + rotation_center[2]>>


\* ------------------------------------------------------------------------
\* State
\* ------------------------------------------------------------------------
VARIABLES
    circles,    \* Space.__circles: records [center, radius]
    pc,         \* "idle", or "rotating" inside Space.rotate_circle
    frame,      \* the locals of the running rotate_circle call
    before,     \* history: circles when the last call started
    last,       \* history: the last call and how it ended
    count,      \* history: Circle.rotate calls made on each circle by it
    \* one circle and a fixed pivot (SpecPoint)
    origin,     \* the pivot
    point,      \* the circle's centre
    angle,      \* history: the last value of calc_angle(origin, point)
    trail,      \* history: the last 2 * MaxSteps Circle.rotate calls
    \* the driving loop (SpecMain)
    mpc,        \* "loop", "done" (in tki.mainloop), "off" (main not run)
    r,          \* the loop variable of main: ticks completed
    calls,      \* history: the rotate_circle calls made in this tick
    redraw,     \* the accumulator of main, in units of STEP_SIZE
    refreshes,  \* calls of Space.redraw so far
    frames,     \* frames appended to the movie so far
    center1,    \* the centre of circle 1, in polar form about circle 0
    turned,     \* history: Circle.rotate calls made on circle 1
    tick        \* history: the end of the last tick

chainVars == <<circles, pc, frame, before, last, count>>
pointVars == <<origin, point, angle, trail>>
mainVars == <<mpc, r, calls, redraw, refreshes, frames, center1, turned, tick>>

vars == <<chainVars, pointVars, mainVars>>

NoFrame == [index |-> 0, nsteps |-> 0, rotation_center |-> <<0, 0>>,
            clockwise |-> FALSE, i |-> 0, n |-> 0]

NoCall == [op |-> "none", index |-> 0, nsteps |-> 0, radius |-> 0,
           result |-> "ok"]

Zeros(len) == [j \in 1..len |-> 0]

\* self.__circles[k]: the source counts the circles from 0
At(cs, k) == cs[k + 1]

\* ------------------------------------------------------------------------
\* Space
\* ------------------------------------------------------------------------
new_center_no_prev_radius(cs, radius) ==
    IF cs = <<>> THEN <<0, 0>>
    ELSE LET prev_circle == cs[Len(cs)]
             center == prev_circle.center
         IN  <<center[1], center[2] + radius>>

new_center_from_rest(cs, radius) ==
    IF cs = <<>> THEN <<0, 0>>
    ELSE <<0, cs[Len(cs)].center[2] + cs[Len(cs)].radius + radius>>

\* the centre Space.add_circle gives the new circle
new_center(cs, radius) ==
    IF cs = <<>> THEN <<0, 0>>
    ELSE LET prev_circle == cs[Len(cs)]
             center == prev_circle.center
         IN  <<center[1], center[2] + prev_circle.radius + radius>>

\* Space.add_circle; draw_line only tells the canvas to trace the circle,
\* and the canvas is not modelled
add_circle(radius) ==
    /\ pc = "idle"
    /\ Len(circles) < MaxCircles
    /\ circles' = Append(circles, [center |-> new_center(circles, radius),
                                   radius |-> radius])
    /\ before' = circles
    /\ last' = [op |-> "add_circle", index |-> 0, nsteps |-> 0,
                radius |-> radius, result |-> "ok"]
    /\ count' = <<>>
    /\ UNCHANGED <<pc, frame, pointVars, mainVars>>

index_error_strict(index, len) == index < 1 \/ index > len

\* the guard of Space.rotate_circle
index_error(index, len) == index < 1 \/ index >= len

\* rotate_circle raising IndexError
rotate_circle_raise(index, nsteps) ==
    /\ pc = "idle"
    /\ index_error(index, Len(circles))
    /\ before' = circles
    /\ last' = [op |-> "rotate_circle", index |-> index, nsteps |-> nsteps,
                radius |-> 0, result |-> "IndexError"]
    /\ count' = Zeros(Len(circles))
    /\ UNCHANGED <<circles, pc, frame, pointVars, mainVars>>

inner_steps_signed(nsteps) == nsteps

\* the bound of range(0, abs(nsteps)); the range is empty when it is 0
inner_steps(nsteps) == Abs(nsteps)

first_circle_skips_index(index) == index + 1

\* the first circle of range(index, len(self.__circles))
first_circle(index) == index

\* rotate_circle up to its loops; with nsteps = 0 the loops do nothing
rotate_circle_call(index, nsteps) ==
    /\ pc = "idle"
    /\ ~index_error(index, Len(circles))
    /\ before' = circles
    /\ count' = Zeros(Len(circles))
    /\ IF inner_steps(nsteps) <= 0 \/ first_circle(index) >= Len(circles)
       THEN /\ last' = [op |-> "rotate_circle", index |-> index,
                        nsteps |-> nsteps, radius |-> 0, result |-> "ok"]
            /\ UNCHANGED <<pc, frame>>
       ELSE /\ last' = [op |-> "rotate_circle", index |-> index,
                        nsteps |-> nsteps, radius |-> 0,
                        result |-> "running"]
            /\ pc' = "rotating"
            /\ frame' = [index |-> index, nsteps |-> nsteps,
                         rotation_center |-> At(circles, index - 1).center,
                         clockwise |-> nsteps > 0,
                         i |-> first_circle(index), n |-> 0]
    /\ UNCHANGED <<circles, pointVars, mainVars>>

\* one pass of the inner loop: circle.rotate(rotation_center, clockwise)
circle_rotate ==
    /\ pc = "rotating"
    /\ ~ZeroDivision(frame.rotation_center, At(circles, frame.i).center)
    /\ circles' = [circles EXCEPT ![frame.i + 1].center =
                      rotate(@, frame.rotation_center, frame.clockwise)]
    /\ count' = [count EXCEPT ![frame.i + 1] = @ + 1]
    /\ IF frame.n + 1 < inner_steps(frame.nsteps)
       THEN /\ frame' = [frame EXCEPT !.n = @ + 1]
            /\ UNCHANGED <<pc, last>>
       ELSE IF frame.i + 1 < Len(circles)
       THEN /\ frame' = [frame EXCEPT !.i = @ + 1, !.n = 0]
            /\ UNCHANGED <<pc, last>>
       ELSE /\ pc' = "idle"
            /\ frame' = NoFrame
            /\ last' = [last EXCEPT !.result = "ok"]
    /\ UNCHANGED <<before, pointVars, mainVars>>

\* calc_angle divides by zero: the circle to rotate sits on the pivot, and
\* the exception leaves rotate_circle
circle_rotate_raise ==
    /\ pc = "rotating"
    /\ ZeroDivision(frame.rotation_center, At(circles, frame.i).center)
    /\ pc' = "idle"
    /\ frame' = NoFrame
    /\ last' = [last EXCEPT !.result = "ZeroDivisionError"]
    /\ UNCHANGED <<circles, before, count, pointVars, mainVars>>

rotate_circle(index, nsteps) ==
    \/ rotate_circle_raise(index, nsteps)
    \/ rotate_circle_call(index, nsteps)

\* the state after Space.__init__
ChainInit ==
    /\ circles = <<>>
    /\ pc = "idle"
    /\ frame = NoFrame
    /\ before = <<>>
    /\ last = NoCall
    /\ count = <<>>

NoAngle == [set |-> FALSE, point |-> <<0, 0>>,
            value |-> [q |-> 0, dir |-> <<1, 0>>]]

NoTick == [start |-> 0, acc |-> 0, refreshed |-> FALSE, captured |-> 0,
           calls |-> <<>>]

PointOff ==
    /\ origin = <<0, 0>>
    /\ point = <<0, 0>>
    /\ angle = NoAngle
    /\ trail = <<>>

MainOff ==
    /\ mpc = "off"
    /\ r = 0
    /\ calls = <<>>
    /\ redraw = 0
    /\ refreshes = 0
    /\ frames = 0
    /\ center1 = [d |-> 0, a |-> 0]
    /\ turned = 0
    /\ tick = NoTick

Init == ChainInit /\ PointOff /\ MainOff

Next ==
    \/ \E radius \in 1..MaxRadius : add_circle(radius)
    \/ \E index \in 0..MaxCircles, nsteps \in -MaxSteps..MaxSteps :
          rotate_circle(index, nsteps)
    \/ circle_rotate
    \/ circle_rotate_raise

Spec == Init /\ [][Next]_vars

\* ------------------------------------------------------------------------
\* One circle about a fixed pivot: calc_angle and Circle.rotate on every
\* pair of points of a grid
\* ------------------------------------------------------------------------
MaxOrigin == 1
MaxOffset == 2

\* a direct call of calc_angle
point_calc_angle ==
    /\ angle' = [set |-> TRUE, point |-> point,
                 value |-> calc_angle(origin, point)]
    /\ UNCHANGED <<origin, point, trail, chainVars, mainVars>>

\* Circle.rotate(origin, clockwise) on the circle at point
point_rotate(clockwise) ==
    /\ angle' = [set |-> TRUE, point |-> point,
                 value |-> calc_angle(origin, point)]
    /\ point' = rotate(point, origin, clockwise)
    /\ trail' = LET all == Append(trail, [from |-> point,
                                          clockwise |-> clockwise])
                IN  IF Len(all) > 2 * MaxSteps THEN Tail(all) ELSE all
    /\ UNCHANGED <<origin, chainVars, mainVars>>

InitPoint ==
    /\ origin \in (-MaxOrigin..MaxOrigin) \X (-MaxOrigin..MaxOrigin)
    /\ \E dx \in -MaxOffset..MaxOffset, dy \in -MaxOffset..MaxOffset :
          /\ <<dx, dy>> # <<0, 0>>
          /\ point = <<origin[1] + dx, origin[2] + dy>>
    /\ angle = NoAngle
    /\ trail = <<>>
    /\ ChainInit
    /\ MainOff

NextPoint ==
    \/ point_calc_angle
    \/ \E clockwise \in BOOLEAN : point_rotate(clockwise)

SpecPoint == InitPoint /\ [][NextPoint]_vars

\* ------------------------------------------------------------------------
\* The driving loop, at the scale of the source.  Angles are integers in
\* units of STEP_SIZE (0.05 degrees).  Circle 0 never moves and circle 1
\* stays at distance 150 + 80 from it, so the centre of circle 1 is kept in
\* polar form [d, a] about circle 0's centre: the point
\* (d * cos(a), d * sin(a)).  The centres of circles 2 to 6 are not kept.
\* ------------------------------------------------------------------------
Degree == 20

\* math.radians(1) * 0.05
STEP_SIZE == (Degree * 5) \div 100

\* math.radians(1)
REDRAW_STEP == Degree

Pi == 180 * Degree

main_radii == <<150, 80, 40, 20, 10, 5, 1>>

main_recipe == <<1, -3, 9, -27, 81, -243>>

\* math.asin(math.sin(a)) for 0 <= a < 2 * pi
polar_asin(a) ==
    IF 2 * a <= Pi THEN a
    ELSE IF 2 * a < 3 * Pi THEN Pi - a
    ELSE a - 2 * Pi

\* math.cos(a) > 0 for 0 <= a < 2 * pi
polar_cos_positive(a) == 2 * a < Pi \/ 2 * a > 3 * Pi

polar_calc_angle_no_mirror(a) == polar_asin(a)

\* calc_angle(origin, point) for the point at angle a about origin:
\* dy / r is sin(a), and point[0] > origin[0] says cos(a) > 0
polar_calc_angle(a) ==
    LET angle0 == polar_asin(a)
    IN  IF polar_cos_positive(a) THEN angle0 ELSE Pi - angle0

\* Circle.rotate about the pole: the distance d is computed and used again
polar_rotate(center, clockwise) ==
    LET angle0 == polar_calc_angle(center.a)
        angle1 == angle0 + (IF clockwise THEN -STEP_SIZE ELSE STEP_SIZE)
    IN  [d |-> center.d, a |-> angle1 % (2 * Pi)]

RECURSIVE polar_rotate_times(_, _, _)
\* the inner loop of rotate_circle on one circle
polar_rotate_times(center, clockwise, k) ==
    IF k = 0 THEN center
    ELSE polar_rotate_times(polar_rotate(center, clockwise), clockwise, k - 1)

RECURSIVE build_chain(_, _)
\* the add_circle calls of main
build_chain(cs, radii) ==
    IF radii = <<>> THEN cs
    ELSE build_chain(Append(cs, [center |-> new_center(cs, Head(radii)),
                                 radius |-> Head(radii)]),
                     Tail(radii))

main_chain == build_chain(<<>>, main_radii)

\* a point of the positive y axis in polar form about (0, 0)
y_axis_polar(p) == [d |-> p[2], a |-> Pi \div 2]

main_ticks_one_short == (2 * Pi) \div STEP_SIZE - 1

\* int(math.pi * 2 / STEP_SIZE)
main_ticks == (2 * Pi) \div STEP_SIZE

\* math.ceil(math.pi * 2 / STEP_SIZE)
ceil_ticks == -((-(2 * Pi)) \div STEP_SIZE)

threshold_reached(acc) == acc >= REDRAW_STEP

\* redraw > REDRAW_STEP
threshold_exceeded(acc) == acc > REDRAW_STEP

\* the index of the next space.rotate_circle line of the loop body
next_call(done) == Len(done) + 1

\* one space.rotate_circle(index, nsteps) line of the loop body; index is
\* in range, and circle 1 is in range(index, 7) only when index is 1
main_rotate_circle ==
    /\ mpc = "loop"
    /\ r < main_ticks
    /\ next_call(calls) <= Len(main_recipe)
    /\ LET index == next_call(calls)
           nsteps == main_recipe[index]
       IN  /\ ~index_error(index, Len(main_chain))
           /\ calls' = Append(calls, index)
           /\ IF index <= 1
              THEN /\ center1' = polar_rotate_times(center1, nsteps > 0,
                                                    Abs(nsteps))
                   /\ turned' = turned + Abs(nsteps)
              ELSE UNCHANGED <<center1, turned>>
    /\ UNCHANGED <<mpc, r, redraw, refreshes, frames, tick, chainVars,
                   pointVars>>

\* the end of the loop body: the accumulator, and the redraw with its frame
main_accumulate ==
    /\ mpc = "loop"
    /\ r < main_ticks
    /\ next_call(calls) > Len(main_recipe)
    /\ LET acc == redraw + STEP_SIZE
       IN  IF threshold_exceeded(acc)
           THEN /\ refreshes' = refreshes + 1
                /\ frames' = frames + 1
                /\ redraw' = 0
                /\ tick' = [start |-> redraw, acc |-> acc,
                            refreshed |-> TRUE, captured |-> 1,
                            calls |-> calls]
           ELSE /\ redraw' = acc
                /\ tick' = [start |-> redraw, acc |-> acc,
                            refreshed |-> FALSE, captured |-> 0,
                            calls |-> calls]
                /\ UNCHANGED <<refreshes, frames>>
    /\ r' = r + 1
    /\ calls' = <<>>
    /\ UNCHANGED <<mpc, center1, turned, chainVars, pointVars>>

\* after the loop: the last frame, then tki.mainloop()
main_last_frame ==
    /\ mpc = "loop"
    /\ r >= main_ticks
    /\ frames' = frames + 1
    /\ mpc' = "done"
    /\ UNCHANGED <<r, calls, redraw, refreshes, center1, turned, tick,
                   chainVars, pointVars>>

InitMain ==
    /\ mpc = "loop"
    /\ r = 0
    /\ calls = <<>>
    /\ redraw = 0
    /\ refreshes = 0
    /\ frames = 0
    /\ center1 = y_axis_polar(main_chain[2].center)
    /\ turned = 0
    /\ tick = NoTick
    /\ ChainInit
    /\ PointOff

NextMain ==
    \/ main_rotate_circle
    \/ main_accumulate
    \/ main_last_frame

SpecMain == InitMain /\ [][NextMain]_vars

\* ------------------------------------------------------------------------
\* Properties of the chain (Spec)
\* ------------------------------------------------------------------------
RotateCalled == last.op = "rotate_circle"

OutOfRange == last.index < 1 \/ last.index >= Len(before)

\* the centre of circle index - 1 when the call started
Pivot == At(before, last.index - 1).center

Suffix == last.index..(Len(before) - 1)

Centers(cs) == [j \in 1..Len(cs) |-> cs[j].center]

Radii(cs) == [j \in 1..Len(cs) |-> cs[j].radius]

\* C1: rotate_circle with index < 1 or index >= len(circles) raises
\* IndexError and leaves every centre and the length of the chain as they
\* were.
C1_IndexErrorLeavesChain ==
    (RotateCalled /\ OutOfRange) =>
        /\ last.result = "IndexError"
        /\ pc = "idle"
        /\ Len(circles) = Len(before)
        /\ Centers(circles) = Centers(before)

C1_Witness ==
    /\ RotateCalled /\ OutOfRange
    /\ last.index = Len(circles)
    /\ last.nsteps = 2
    /\ Len(circles) = 3
    /\ circles[2].center[1] # 0
    /\ circles[3].center[2] # circles[2].center[2]

\* C2: after rotate_circle(k, nsteps) with k in range (and after each
\* Circle.rotate inside it) every circle i >= k is as far from the centre of
\* circle k - 1 as it was before the call.
C2_DistanceFromPivotKept ==
    (RotateCalled /\ ~OutOfRange) =>
        \A j \in Suffix :
            calc_distance(Pivot, At(circles, j).center)
                = calc_distance(Pivot, At(before, j).center)

C2_Witness ==
    /\ RotateCalled /\ ~OutOfRange
    /\ pc = "idle" /\ last.result = "ok"
    /\ last.index = 2 /\ last.nsteps = -1
    /\ Len(circles) = 3
    /\ Pivot[1] # 0
    /\ At(circles, 2).center # At(before, 2).center

\* C3: add_circle puts the first circle at (0, 0) and any later circle at
\* the last circle's current centre moved by (0, radius(last) +
\* radius(new)), so that the two centres are radius(last) + radius(new)
\* apart; it changes no centre and no radius of the circles already there.
C3_AddCirclePlacement ==
    (last.op = "add_circle") =>
        LET len == Len(circles)
            new == circles[len]
        IN  /\ len = Len(before) + 1
            /\ new.radius = last.radius
            /\ \A j \in 1..Len(before) :
                  /\ circles[j].center = before[j].center
                  /\ circles[j].radius = before[j].radius
            /\ len = 1 => new.center = <<0, 0>>
            /\ len > 1 =>
                  LET prev == before[len - 1]
                      sum == prev.radius + new.radius
                  IN  /\ new.center
                            = <<prev.center[1], prev.center[2] + sum>>
                      /\ calc_distance(prev.center, new.center) = sum * sum

C3_Witness ==
    /\ last.op = "add_circle"
    /\ Len(circles) = 3
    /\ before[2].center[1] # 0
    /\ circles[3].center[1] = before[2].center[1]

FrameKept ==
    /\ Len(circles) = Len(before)
    /\ Radii(circles) = Radii(before)
    /\ \A j \in 0..(last.index - 1) :
          At(circles, j).center = At(before, j).center
    /\ pc = "rotating" => frame.rotation_center = Pivot

\* C8 as stated: rotate_circle(k, nsteps) with k in range moves only the
\* circles i >= k, each exactly abs(nsteps) times about the same point;
\* circles i < k keep their centres throughout, and no radius and not the
\* length of the chain change.
C8_Original ==
    (RotateCalled /\ ~OutOfRange) =>
        /\ FrameKept
        /\ pc = "idle" =>
              \A j \in Suffix : count[j + 1] = Abs(last.nsteps)

\* C8 amended: as above when the call returns; when nsteps # 0 and a circle
\* i >= k has its centre on the pivot, the call ends in ZeroDivisionError at
\* the first such circle, having rotated the circles before it abs(nsteps)
\* times and that circle and the later ones not at all.
C8_FrameAndCounts ==
    (RotateCalled /\ ~OutOfRange) =>
        /\ FrameKept
        /\ pc = "idle" => last.result \in {"ok", "ZeroDivisionError"}
        /\ (pc = "idle" /\ last.result = "ok") =>
              \A j \in Suffix : count[j + 1] = Abs(last.nsteps)
        /\ (pc = "idle" /\ last.result = "ZeroDivisionError") =>
              /\ last.nsteps # 0
              /\ \E f \in Suffix :
                    /\ At(circles, f).center = Pivot
                    /\ \A j \in Suffix :
                          /\ j < f => At(before, j).center # Pivot
                          /\ count[j + 1] =
                                IF j < f THEN Abs(last.nsteps) ELSE 0

C8_Witness ==
    /\ RotateCalled /\ ~OutOfRange
    /\ pc = "idle" /\ last.result = "ok"
    /\ last.index = 1 /\ last.nsteps = -2
    /\ Len(circles) = 3
    /\ count = <<0, 2, 2>>
    /\ At(before, 1).center[1] # 0
    /\ At(circles, 1).center # At(before, 1).center

\* C10: whenever no call is running, whatever calls were made and however
\* they ended, circle 0 is at (0, 0) and each circle i > 0 is
\* radius(i - 1) + radius(i) away from circle i - 1.
C10_ChainTangent ==
    (pc = "idle" /\ circles # <<>>) =>
        /\ circles[1].center = <<0, 0>>
        /\ \A j \in 2..Len(circles) :
              calc_distance(circles[j - 1].center, circles[j].center)
                  = (circles[j - 1].radius + circles[j].radius)
                        * (circles[j - 1].radius + circles[j].radius)

C10_Witness ==
    /\ pc = "idle"
    /\ Len(circles) = 3
    /\ last.result = "ZeroDivisionError"
    /\ circles # before
    /\ circles[2].center[1] # 0
    /\ circles[3].center = <<0, 0>>

\* ------------------------------------------------------------------------
\* Properties of calc_angle and Circle.rotate (SpecPoint)
\* ------------------------------------------------------------------------
\* C4 as stated: calc_angle(O, P) lies in [0, pi] for every P # O.
C4_Original == angle.set => InZeroPi(angle.value)

\* C4 amended: calc_angle(O, P) lies in [-pi/2, 3*pi/2], and in [0, pi]
\* exactly when P is not below O.
C4_AngleRange ==
    angle.set =>
        /\ InFullRange(angle.value)
        /\ InZeroPi(angle.value) <=> angle.point[2] >= origin[2]

C4_Witness ==
    /\ angle.set
    /\ angle.point[1] < origin[1]
    /\ angle.point[2] < origin[2]
    /\ angle.value.q = 2
    /\ angle.value.dir[2] # 0

\* the last 2 * k rotations were k counterclockwise, then k clockwise
ThereAndBack(k) ==
    /\ Len(trail) >= 2 * k
    /\ \A j \in 1..k :
          /\ ~trail[Len(trail) - 2 * k + j].clockwise
          /\ trail[Len(trail) - k + j].clockwise

\* C5: one counterclockwise Circle.rotate about O followed by one clockwise
\* Circle.rotate about O puts the centre back where it was; so do k of the
\* one followed by k of the other, which is what rotate_circle(i, -k) and
\* then rotate_circle(i, k) do to each circle they rotate.
C5_RoundTrip ==
    \A k \in 1..MaxSteps :
        ThereAndBack(k) => point = trail[Len(trail) - 2 * k + 1].from

C5_Witness ==
    /\ ThereAndBack(2)
    /\ point = trail[Len(trail) - 3].from
    /\ trail[Len(trail)].from # point
    /\ point[1] < origin[1]
    /\ point[2] < origin[2]
    /\ point[1] - origin[1] # point[2] - origin[2]

\* ------------------------------------------------------------------------
\* Properties of the driving loop (SpecMain)
\* ------------------------------------------------------------------------
\* C6: when main has run all its ticks circle 1 is back at (0, 230), after
\* exactly one turn about circle 0: it is moved by rotate_circle(1, 1)
\* only, once in each tick.
C6_CircleOneReturns ==
    /\ turned = r + (IF calls # <<>> THEN 1 ELSE 0)
    /\ mpc = "done" =>
          /\ center1 = y_axis_polar(<<0, 230>>)
          /\ turned * STEP_SIZE = 2 * Pi

C6_Witness ==
    /\ mpc = "done"
    /\ center1 = [d |-> 230, a |-> 90 * Degree]
    /\ turned = 360 * Degree

\* C7: main leaves its loop after exactly ceil(2 * pi / STEP_SIZE) ticks,
\* cannot stop earlier, and each tick calls rotate_circle once for each
\* index 1 .. N - 1, in increasing order.
C7_TicksAndCalls ==
    /\ mpc = "done" => r = ceil_ticks
    /\ mpc = "loop" => (r <= ceil_ticks /\ ENABLED NextMain)
    /\ \E k \in 0..(Len(main_radii) - 1) : calls = [j \in 1..k |-> j]
    /\ r > 0 => tick.calls = [j \in 1..(Len(main_radii) - 1) |-> j]

C7_Witness ==
    /\ mpc = "done"
    /\ r = 7200
    /\ tick.calls = <<1, 2, 3, 4, 5, 6>>

\* C9: each tick adds STEP_SIZE to the accumulator; the tick redraws
\* exactly when the accumulator then exceeds REDRAW_STEP, each redraw comes
\* with exactly one movie frame, and the accumulator is then set to 0, so
\* that it never exceeds REDRAW_STEP when a tick starts.
C9_RedrawCadence ==
    /\ redraw <= REDRAW_STEP
    /\ frames = refreshes + (IF mpc = "done" THEN 1 ELSE 0)
    /\ r > 0 =>
          /\ tick.acc = tick.start + STEP_SIZE
          /\ tick.refreshed <=> tick.acc > REDRAW_STEP
          /\ tick.refreshed => (tick.captured = 1 /\ redraw = 0)
          /\ ~tick.refreshed => (tick.captured = 0 /\ redraw = tick.acc)

C9_Witness ==
    /\ mpc = "loop"
    /\ tick.refreshed
    /\ tick.acc = REDRAW_STEP + STEP_SIZE
    /\ refreshes = 2
    /\ frames = 2
    /\ redraw = 0

====
